---- MODULE Spec2Model ----
\* Model of crates/canopy-parser/udpipe_wrapper.{h,cpp}: the C boundary that
\* runs the UDPipe pipeline (tokenize, tag, parse) and copies the resulting
\* sentence into caller-owned, malloc'ed structures.
\*
\* Pointers are integers: NULL is 0, a heap block is addressed by its index in
\* `heap`.  Text is a sequence of one-character strings; a C buffer carries an
\* explicit terminating NUL byte.  malloc may return NULL: every call draws
\* the allocator's behaviour (which allocation fails) as an input.
EXTENDS Integers, Sequences, FiniteSets, TLC

\* ------------------------------------------------------------------ bounds
\* Longest internal sentence (number of entries of sentence::words).
MaxWords == 2
\* Number of udpipe_sentence_get_word calls in one run.
MaxGets == 1

\* --------------------------------------------------------------- constants
NULL == 0
\* The value of memory that was allocated and never written.
Indeterminate == -1
\* Some valid pointer that is not a block of the modelled heap (the model
\* handle, the caller's char* slot, a held sentence, the caller's word).
NonNull == NULL + 1
\* The zero byte that terminates a C string.
NUL == "NUL"
\* A byte of a fresh malloc block.
Garbage == "?"

\* "Invalid parameters" (udpipe_wrapper.cpp:60)
InvalidParameters ==
    <<"I", "n", "v", "a", "l", "i", "d", " ", "p", "a", "r", "a", "m", "e", "t", "e", "r", "s">>

\* "Failed to create tokenizer" (udpipe_wrapper.cpp:75)
TokenizerFailed ==
    <<"F", "a", "i", "l", "e", "d", " ", "t", "o", " ", "c", "r", "e", "a", "t", "e", " ", "t", "o", "k", "e", "n", "i", "z", "e", "r">>

\* "No sentence found" (udpipe_wrapper.cpp:89)
NoSentenceFound ==
    <<"N", "o", " ", "s", "e", "n", "t", "e", "n", "c", "e", " ", "f", "o", "u", "n", "d">>

\* "POS tagging failed" (udpipe_wrapper.cpp:97)
TaggingFailed ==
    <<"P", "O", "S", " ", "t", "a", "g", "g", "i", "n", "g", " ", "f", "a", "i", "l", "e", "d">>

\* "Dependency parsing failed" (udpipe_wrapper.cpp:105)
ParsingFailed ==
    <<"D", "e", "p", "e", "n", "d", "e", "n", "c", "y", " ", "p", "a", "r", "s", "i", "n", "g", " ", "f", "a", "i", "l", "e", "d">>

\* "Memory allocation failed" (udpipe_wrapper.cpp:116)
AllocFailed ==
    <<"M", "e", "m", "o", "r", "y", " ", "a", "l", "l", "o", "c", "a", "t", "i", "o", "n", " ", "f", "a", "i", "l", "e", "d">>

\* "Unknown error occurred" (udpipe_wrapper.cpp:149)
UnknownError ==
    <<"U", "n", "k", "n", "o", "w", "n", " ", "e", "r", "r", "o", "r", " ", "o", "c", "c", "u", "r", "r", "e", "d">>

\* ------------------------------------------------------------- data types
\* The eight char* members of UDPipeWord, in declaration order.
TextFields ==
    <<"form", "lemma", "upostag", "xpostag", "feats", "deprel", "deps", "misc">>

\* A UDPipeWord whose memory was never written.
UninitWord ==
    [id |-> Indeterminate, form |-> Indeterminate, lemma |-> Indeterminate,
     upostag |-> Indeterminate, xpostag |-> Indeterminate,
     feats |-> Indeterminate, head |-> Indeterminate,
     deprel |-> Indeterminate, deps |-> Indeterminate, misc |-> Indeterminate]

\* A UDPipeSentence whose memory was never written.
UninitSentence ==
    [words |-> Indeterminate, word_count |-> Indeterminate, text |-> Indeterminate]

\* A block as malloc returns it: `size` elements of its kind, all unwritten.
\* kind "str": size bytes; "words": size UDPipeWord; "sentence": one struct.
NewBlock(kind, size) ==
    [kind  |-> kind,
     live  |-> TRUE,
     size  |-> size,
     bytes |-> IF kind = "str" THEN [i \in 1..size |-> Garbage] ELSE <<>>,
     elems |-> IF kind = "words" THEN [i \in 1..size |-> UninitWord] ELSE <<>>,
     hdr   |-> UninitSentence]

\* Statements run one after the other.  Where a loop threads the memory
\* state through its statements, the result d of one statement is computed
\* to the end before the rest runs on it, written
\*     CHOOSE r \in { rest(d) : d \in {statement} } : TRUE
\* which is rest(statement).

\* ------------------------------------------------------------ the allocator
\* An allocator behaviour for one call: allocation number `at` of the call
\* fails (0: none does), or, when `all`, every allocation of the call fails.
NoAlloc == [at |-> 0, all |-> FALSE]

\* The behaviours that differ for a call making at most k allocations.
AllocPatterns(k) ==
    { [at |-> j, all |-> FALSE] : j \in 0..k } \cup { [at |-> 0, all |-> TRUE] }

Fails(pat, k) == pat.all \/ k = pat.at

\* malloc: ms is the memory state of the running call, [heap, n, pat, got];
\* n counts the call's allocations, got collects the blocks it obtained.
malloc(ms, kind, size) ==
    LET k == ms.n + 1 IN
    IF Fails(ms.pat, k)
    THEN [ms |-> [ms EXCEPT !.n = k], ptr |-> NULL]
    ELSE [ms  |-> [ms EXCEPT !.n = k,
                             !.heap = Append(@, NewBlock(kind, size)),
                             !.got = @ \cup {Len(ms.heap) + 1}],
          ptr |-> Len(ms.heap) + 1]

\* ---------------------------------------------------------- C string library
\* std::string::c_str(): the characters followed by the terminator.
c_str(str) == Append(str, NUL)

\* strlen: the number of bytes before the first NUL.
strlen(bytes) ==
    (CHOOSE i \in 1..Len(bytes) :
        bytes[i] = NUL /\ \A j \in 1..(i - 1) : bytes[j] # NUL) - 1

\* strcpy(dst, src): copies src up to and including its first NUL.
strcpy(heap, dst, src) ==
    LET n == strlen(src) + 1 IN
    [heap EXCEPT ![dst].bytes =
        [i \in 1..Len(@) |-> IF i <= n THEN src[i] ELSE @[i]]]

\* The text a char* denotes: the bytes of its block before the first NUL.
TextAt(heap, p) == SubSeq(heap[p].bytes, 1, strlen(heap[p].bytes))

\* --------------------------------------------------------- duplicate_string
duplicate_string(ms, str) ==
    IF Len(str) = 0
    THEN [ms |-> ms, ptr |-> NULL]
    ELSE LET r == malloc(ms, "str", Len(str) + 1) IN
         IF r.ptr # NULL
         THEN [ms  |-> [r.ms EXCEPT !.heap = strcpy(@, r.ptr, c_str(str))],
               ptr |-> r.ptr]
         ELSE r

\* ------------------------------------------------------------ word copying
\* The assignments dest->X = duplicate_string(w.Y) of udpipe_process_text,
\* as <<X, Y>> in statement order.
ProcessCopies ==
    << <<"form", "form">>, <<"lemma", "lemma">>, <<"upostag", "upostag">>,
       <<"xpostag", "xpostag">>, <<"feats", "feats">>, <<"deprel", "deprel">>,
       <<"deps", "deps">>, <<"misc", "misc">> >>

\* The assignments word->X = duplicate_string(w.Y) of
\* udpipe_sentence_get_word, as <<X, Y>> in statement order.
GetWordCopies ==
    << <<"form", "form">>, <<"lemma", "lemma">>, <<"upostag", "upostag">>,
       <<"xpostag", "xpostag">>, <<"feats", "feats">>, <<"deprel", "deprel">>,
       <<"deps", "deps">>, <<"misc", "misc">> >>

\* Runs copies[k..] in order on dest, threading the memory state.
RECURSIVE CopyTextFields(_, _, _, _, _)
CopyTextFields(ms, dest, w, copies, k) ==
    IF k > Len(copies)
    THEN [ms |-> ms, word |-> dest]
    ELSE CHOOSE r \in
           { CopyTextFields(d.ms, [dest EXCEPT ![copies[k][1]] = d.ptr],
                            w, copies, k + 1) :
             d \in {duplicate_string(ms, w[copies[k][2]])} } : TRUE

\* -------------------------------------------- the external model's results
\* The i-th entry (0-based) of an internal sentence's words: entry 0 is the
\* root (head -1), entry i > 0 hangs under entry i - 1.  UDPipe leaves a
\* member empty when it has no value; "sparse" words have only form, upostag
\* and deprel.
Letter(i) == <<"a", "b", "c", "d", "e">>[i + 1]

Word(i, shape) ==
    LET opt(t) == IF shape = "sparse" THEN <<>> ELSE t IN
    [id      |-> i,
     form    |-> <<"F", Letter(i)>>,
     lemma   |-> opt(<<"L", Letter(i)>>),
     upostag |-> <<"U", Letter(i)>>,
     xpostag |-> opt(<<"X", Letter(i)>>),
     feats   |-> opt(<<"E", Letter(i)>>),
     head    |-> IF i = 0 THEN 0 - 1 ELSE i - 1,
     deprel  |-> <<"R", Letter(i)>>,
     deps    |-> opt(<<"D", Letter(i)>>),
     misc    |-> opt(<<"M", Letter(i)>>)]

Shapes == {"full", "sparse", "mixed"}

MkSentence(n, shape) ==
    [i \in 1..n |->
        Word(i - 1, IF shape = "mixed"
                    THEN (IF i % 2 = 1 THEN "sparse" ELSE "full")
                    ELSE shape)]

\* The values sentence::words can take after a successful pipeline run.  A
\* UDPipe sentence always holds its root word, at index 0, so it is never
\* empty.
Sentences == { MkSentence(n, sh) : n \in 1..MaxWords, sh \in Shapes }

\* The error string the model leaves in `error` when a call returns false,
\* and what() of an exception it throws.  Either may be empty.
ErrorTexts == { <<>>, <<"b", "a", "d">> }

\* What one external call does: returns success, reports failure (a null
\* tokenizer, a false return) leaving `error`, throws a std::exception with
\* what() = error, or throws something else.
Ok == [outcome |-> "ok", error |-> <<>>]

Failures ==
    { [outcome |-> o, error |-> e] : o \in {"fail", "throw_std"}, e \in ErrorTexts }
    \cup { [outcome |-> "throw_other", error |-> <<>>] }

IsThrow(o) == o \in {"throw_std", "throw_other"}

\* The behaviour of the model during one call: external call number f
\* (1 new_tokenizer, 2 set_text/next_sentence, 3 tag, 4 parse) is the first
\* that does not succeed and ends `bad`; a call after it would end `later`.
\* GoodRun: every call succeeds.
GoodRun == [tokenizer |-> Ok, segment |-> Ok, tag |-> Ok, parse |-> Ok]

BadRuns ==
    { [tokenizer |-> IF f = 1 THEN bad ELSE Ok,
       segment   |-> IF f = 2 THEN bad ELSE IF f > 2 THEN Ok ELSE later,
       tag       |-> IF f = 3 THEN bad ELSE IF f > 3 THEN Ok ELSE later,
       parse     |-> IF f = 4 THEN bad ELSE later] :
      f \in 1..4, bad \in Failures,
      later \in {Ok, [outcome |-> "fail", error |-> <<>>]} }

Runs == {GoodRun} \cup BadRuns

\* The `text` argument: a null pointer, or a C string (possibly empty).
Texts == { <<>>, <<"a", " ", " ", "b", ".">> }

TextArgs ==
    {[isnull |-> TRUE, s |-> <<>>]} \cup {[isnull |-> FALSE, s |-> t] : t \in Texts}

\* input_format::next_sentence on the text set by set_text: the tokenizer
\* finds no sentence in an empty text.
next_sentence(text, result) ==
    IF result.outcome = "ok" /\ Len(text) = 0
    THEN [outcome |-> "fail", error |-> <<>>]
    ELSE result

\* ------------------------------------------------------ udpipe_process_text
\* if (error_msg) *error_msg = duplicate_string(msg);
ReportError(ms, error_msg, err, msg) ==
    IF error_msg = NULL
    THEN [ms |-> ms, err |-> err, written |-> FALSE]
    ELSE LET d == duplicate_string(ms, msg) IN
         [ms |-> d.ms, err |-> d.ptr, written |-> TRUE]

\* The test `if (!...)` on what an external call returned, as it would be
\* with the test left out.
StageFailedIgnored(r) == FALSE

\* The test `if (!...)` on what an external call returned.
StageFailed(r) == r.outcome = "fail"

\* error.empty() ? dflt : error.c_str()
ErrorOr(error, dflt) == IF Len(error) = 0 THEN dflt ELSE error

\* The loop of lines 121-135 from word i (0-based) on.
RECURSIVE ExtractWords(_, _, _, _)
ExtractWords(ms, words, s, i) ==
    IF i >= Len(s)
    THEN ms
    ELSE LET w == s[i + 1]
             dest == [ms.heap[words].elems[i + 1] EXCEPT
                         !.id = w.id, !.head = w.head]
         IN CHOOSE r \in
              { ExtractWords([c.ms EXCEPT !.heap[words].elems[i + 1] = c.word],
                             words, s, i + 1) :
                c \in {CopyTextFields(ms, dest, w, ProcessCopies, 1)} } : TRUE

\* Lines 110-140: the conversion of the parsed sentence s into *result.
\* `fail(ms, msg, wrote)` and `done(ms)` are the two ways the call ends.
ExtractResults(ms, result, text, s) ==
    LET ms1 == [ms EXCEPT !.heap[result].hdr.word_count = Len(s)] IN
    IF Len(s) > 0
    THEN LET m   == malloc(ms1, "words", Len(s))
             ms2 == [m.ms EXCEPT !.heap[result].hdr.words = m.ptr]
         IN IF m.ptr = NULL
            THEN [ok |-> FALSE, ms |-> ms2]
            ELSE LET ms3 == ExtractWords(ms2, m.ptr, s, 0)
                     d   == duplicate_string(ms3, text)
                 IN [ok |-> TRUE,
                     ms |-> [d.ms EXCEPT !.heap[result].hdr.text = d.ptr]]
    ELSE LET d == duplicate_string(ms1, text)
         IN [ok |-> TRUE, ms |-> [d.ms EXCEPT !.heap[result].hdr.text = d.ptr]]

\* The whole call.  a: the arguments and this call's environment
\* ([model_ptr, text, result, error_msg, run, pat]); err: the caller's char*
\* before the call; s: the sentence the model yields.
\* Result: the return value, the heap, the caller's char*, whether
\* *error_msg and *result were written, the blocks obtained for the record
\* and the pipeline stages run, in order, with how each ended.
udpipe_process_text(heap, err, a, s) ==
    LET ms0 == [heap |-> heap, n |-> 0, pat |-> a.pat, got |-> {}]
        Fail(ms, msg, log, wrote) ==
            LET r == ReportError(ms, a.error_msg, err, msg)
            IN [ret |-> 0, heap |-> r.ms.heap, err |-> r.err,
                errWritten |-> r.written, recWritten |-> wrote,
                recBlocks |-> ms.got, stages |-> log]
        Caught(ms, e, log, wrote) ==
            Fail(ms, IF e.outcome = "throw_std" THEN e.error ELSE UnknownError,
                 log, wrote)
        Entry(name, r) ==
            [stage |-> name, outcome |-> r.outcome, error |-> r.error]
        tok  == a.run.tokenizer
        seg  == next_sentence(a.text.s, a.run.segment)
        tag  == a.run.tag
        par  == a.run.parse
        log1 == << Entry("tokenizer", tok) >>
        log2 == Append(log1, Entry("segment", seg))
        log3 == Append(log2, Entry("tag", tag))
        log4 == Append(log3, Entry("parse", par))
        x    == ExtractResults(ms0, a.result, a.text.s, s)
        log5 == Append(log4, [stage |-> "convert",
                              outcome |-> IF x.ok THEN "ok" ELSE "fail",
                              error |-> <<>>])
    IN
    IF a.model_ptr = NULL \/ a.text.isnull \/ a.result = NULL
    THEN Fail(ms0, InvalidParameters, <<>>, FALSE)
    ELSE IF IsThrow(tok.outcome) THEN Caught(ms0, tok, log1, FALSE)
    ELSE IF StageFailed(tok) THEN Fail(ms0, TokenizerFailed, log1, FALSE)
    ELSE IF IsThrow(seg.outcome) THEN Caught(ms0, seg, log2, FALSE)
    ELSE IF StageFailed(seg)
         THEN Fail(ms0, ErrorOr(seg.error, NoSentenceFound), log2, FALSE)
    ELSE IF IsThrow(tag.outcome) THEN Caught(ms0, tag, log3, FALSE)
    ELSE IF StageFailed(tag)
         THEN Fail(ms0, ErrorOr(tag.error, TaggingFailed), log3, FALSE)
    ELSE IF IsThrow(par.outcome) THEN Caught(ms0, par, log4, FALSE)
    ELSE IF StageFailed(par)
         THEN Fail(ms0, ErrorOr(par.error, ParsingFailed), log4, FALSE)
    ELSE IF ~x.ok THEN Fail(x.ms, AllocFailed, log5, TRUE)
    ELSE [ret |-> 1, heap |-> x.ms.heap, err |-> err,
          errWritten |-> FALSE, recWritten |-> TRUE,
          recBlocks |-> x.ms.got, stages |-> log5]

\* -------------------------------------------------- udpipe_sentence_create
udpipe_sentence_create(ms) ==
    LET r == malloc(ms, "sentence", 1) IN
    IF r.ptr # NULL
    THEN [ms  |-> [r.ms EXCEPT !.heap[r.ptr].hdr =
                      [words |-> NULL, word_count |-> 0, text |-> NULL]],
          ptr |-> r.ptr]
    ELSE r

\* ------------------------------------------------- udpipe_sentence_destroy
\* free(p) on m = [heap, fault]; after a fault the program is gone.
free(m, p) ==
    IF m.fault # "none" \/ p = NULL THEN m
    ELSE IF p \notin 1..Len(m.heap) THEN [m EXCEPT !.fault = "invalid_free"]
    ELSE IF ~m.heap[p].live THEN [m EXCEPT !.fault = "double_free"]
    ELSE [m EXCEPT !.heap[p].live = FALSE]

\* What dereferencing a null or dangling words pointer can do.
DerefOutcomes == {"segv", "invalid_free"}

RECURSIVE FreeFields(_, _, _)
FreeFields(m, word, k) ==
    IF k > Len(TextFields) THEN m
    ELSE CHOOSE r \in
           { FreeFields(m1, word, k + 1) :
             m1 \in {free(m, word[TextFields[k]])} } : TRUE

\* The loop of lines 35-45 from word i (0-based) on; ub: what an invalid
\* &sentence->words[i] leads to.
RECURSIVE FreeWords(_, _, _, _)
FreeWords(m, hdr, i, ub) ==
    IF m.fault # "none" \/ i >= hdr.word_count THEN m
    ELSE IF \/ hdr.words \notin 1..Len(m.heap)
            \/ ~m.heap[hdr.words].live
            \/ i >= m.heap[hdr.words].size
         THEN [m EXCEPT !.fault = ub]
         ELSE CHOOSE r \in
                { FreeWords(m1, hdr, i + 1, ub) :
                  m1 \in {FreeFields(m, m.heap[hdr.words].elems[i + 1], 1)} } : TRUE

udpipe_sentence_destroy(heap, sentence, ub) ==
    LET m0 == [heap |-> heap, fault |-> "none"] IN
    IF sentence = NULL THEN m0
    ELSE LET hdr == heap[sentence].hdr
             m1  == FreeWords(m0, hdr, 0, ub)
             m2  == free(m1, hdr.words)
             m3  == free(m2, hdr.text)
         IN free(m3, sentence)

\* ------------------------------------------------------------- accessors
\* sentence_ptr is NULL or points at the held internal sentence s.
udpipe_sentence_get_word_count(sentence_ptr, s) ==
    IF sentence_ptr = NULL THEN 0 ELSE Len(s)

\* udpipe_sentence_get_word with the bounds test off by one (index > size):
\* index = size reads one element past the end of the vector.
udpipe_sentence_get_word_off_by_one(ms, sentence_ptr, s, index, word, out) ==
    IF sentence_ptr = NULL \/ word = NULL
    THEN [ret |-> 0, ms |-> ms, word |-> out]
    ELSE IF index > Len(s)
    THEN [ret |-> 0, ms |-> ms, word |-> out]
    ELSE LET w == IF index < Len(s) THEN s[index + 1] ELSE Word(0, "sparse")
             c == CopyTextFields(ms, [out EXCEPT !.id = w.id, !.head = w.head],
                                 w, GetWordCopies, 1)
         IN [ret |-> 1, ms |-> c.ms, word |-> c.word]

\* Result: the return value, the memory state and the caller's UDPipeWord
\* (`out`: its content before the call).
udpipe_sentence_get_word(ms, sentence_ptr, s, index, word, out) ==
    IF sentence_ptr = NULL \/ word = NULL
    THEN [ret |-> 0, ms |-> ms, word |-> out]
    ELSE IF index >= Len(s)
    THEN [ret |-> 0, ms |-> ms, word |-> out]
    ELSE LET w == s[index + 1]
             c == CopyTextFields(ms, [out EXCEPT !.id = w.id, !.head = w.head],
                                 w, GetWordCopies, 1)
         IN [ret |-> 1, ms |-> c.ms, word |-> c.word]

\* ------------------------------------------------------ udpipe_free_string
udpipe_free_string(heap, str) == free([heap |-> heap, fault |-> "none"], str)

\* =================================================================== state
VARIABLES
    heap,      \* the malloc heap: a sequence of blocks, address = index
    parsed,    \* the sentence the model yields / the caller holds a handle to
    rec,       \* the caller's UDPipeSentence*
    recState,  \* "none", "held" (created), "processed" or "destroyed"
    err,       \* the caller's char* error message
    pa,        \* arguments of the udpipe_process_text call
    pr,        \* its outcome
    gets,      \* udpipe_sentence_get_word calls made
    ga,        \* arguments of the last udpipe_sentence_get_word
    gr,        \* its return value and the caller's word before it
    outWord,   \* the caller's UDPipeWord
    wc,        \* last udpipe_sentence_get_word_count: [called, arg, ret]
    fault      \* "none", or how the program died

vars ==
    <<heap, parsed, rec, recState, err, pa, pr, gets, ga, gr, outWord, wc, fault>>

Init ==
    /\ heap = <<>>
    /\ parsed \in Sentences
    /\ rec = NULL
    /\ recState = "none"
    /\ err = NULL
    /\ pa = [model_ptr |-> NULL, text |-> [isnull |-> TRUE, s |-> <<>>],
             result |-> NULL, error_msg |-> NULL]
    /\ pr = [called |-> FALSE, ret |-> 0, errWritten |-> FALSE,
             recWritten |-> FALSE, recBlocks |-> {}, stages |-> <<>>,
             err |-> NULL]
    /\ gets = 0
    /\ ga = [sentence_ptr |-> NULL, index |-> 0, word |-> NULL]
    /\ gr = [ret |-> 0, before |-> UninitWord]
    /\ outWord = UninitWord
    /\ wc = [called |-> FALSE, arg |-> NULL, ret |-> 0]
    /\ fault = "none"

\* The caller obtains a record.
Create ==
    /\ fault = "none"
    /\ recState = "none"
    /\ \E pat \in AllocPatterns(1) :
         LET r == udpipe_sentence_create(
                      [heap |-> heap, n |-> 0, pat |-> pat, got |-> {}])
         IN /\ heap' = r.ms.heap
            /\ rec' = r.ptr
    /\ recState' = "held"
    /\ UNCHANGED <<parsed, err, pa, pr, gets, ga, gr, outWord, wc, fault>>

\* The arguments and environments of a call on the caller's record: calls
\* the argument check rejects, and calls it accepts under every behaviour of
\* the model and of the allocator that changes what the call does.
ProcessInputs ==
    LET args == { [model_ptr |-> m, text |-> t, result |-> r, error_msg |-> e] :
                    m \in {NULL, NonNull}, t \in TextArgs, r \in {NULL, rec},
                    e \in {NULL, NonNull} }
        rejected(a) == a.model_ptr = NULL \/ a.text.isnull \/ a.result = NULL
        allocs(run) == IF run = GoodRun THEN 8 * Len(parsed) + 2 ELSE 1
    IN { [a |-> a, run |-> GoodRun, pat |-> p] :
           a \in {x \in args : rejected(x)}, p \in AllocPatterns(1) }
       \cup
       UNION { { [a |-> a, run |-> run, pat |-> p] : p \in AllocPatterns(allocs(run)) } :
               a \in {x \in args : ~rejected(x)}, run \in Runs }

\* The caller runs the pipeline once on its record (or passes no record);
\* the char* slot it passes for the message holds NULL.
Process ==
    /\ fault = "none"
    /\ recState = "held"
    /\ \E in \in ProcessInputs :
         LET a == [model_ptr |-> in.a.model_ptr, text |-> in.a.text,
                   result |-> in.a.result, error_msg |-> in.a.error_msg,
                   run |-> in.run, pat |-> in.pat]
             r == udpipe_process_text(heap, err, a, parsed)
         IN /\ heap' = r.heap
            /\ err' = r.err
            /\ pa' = in.a
            /\ pr' = [called |-> TRUE, ret |-> r.ret,
                      errWritten |-> r.errWritten,
                      recWritten |-> r.recWritten, recBlocks |-> r.recBlocks,
                      stages |-> r.stages, err |-> r.err]
    /\ recState' = "processed"
    /\ UNCHANGED <<parsed, rec, gets, ga, gr, outWord, wc, fault>>

\* The caller releases its record, once.
Destroy ==
    /\ fault = "none"
    /\ recState \in {"held", "processed"}
    /\ \E ub \in DerefOutcomes :
         LET m == udpipe_sentence_destroy(heap, rec, ub)
         IN /\ heap' = m.heap
            /\ fault' = m.fault
    /\ recState' = "destroyed"
    /\ UNCHANGED <<parsed, rec, err, pa, pr, gets, ga, gr, outWord, wc>>

\* The caller releases the message it got and forgets the pointer.
FreeString ==
    /\ fault = "none"
    /\ err # NULL
    /\ LET m == udpipe_free_string(heap, err)
       IN /\ heap' = m.heap
          /\ fault' = m.fault
    /\ err' = NULL
    /\ UNCHANGED <<parsed, rec, recState, pa, pr, gets, ga, gr, outWord, wc>>

GetWordCount ==
    /\ fault = "none"
    /\ \E sentence_ptr \in {NULL, NonNull} :
         wc' = [called |-> TRUE, arg |-> sentence_ptr,
                ret |-> udpipe_sentence_get_word_count(sentence_ptr, parsed)]
    /\ UNCHANGED <<heap, parsed, rec, recState, err, pa, pr, gets, ga, gr,
                   outWord, fault>>

GetWord ==
    /\ fault = "none"
    /\ gets < MaxGets
    /\ \E sentence_ptr \in {NULL, NonNull}, index \in 0..(MaxWords + 1),
          word \in {NULL, NonNull}, pat \in AllocPatterns(8) :
         LET r == udpipe_sentence_get_word(
                      [heap |-> heap, n |-> 0, pat |-> pat, got |-> {}],
                      sentence_ptr, parsed, index, word, outWord)
         IN /\ heap' = r.ms.heap
            /\ outWord' = r.word
            /\ ga' = [sentence_ptr |-> sentence_ptr, index |-> index,
                      word |-> word]
            /\ gr' = [ret |-> r.ret, before |-> outWord]
    /\ gets' = gets + 1
    /\ UNCHANGED <<parsed, rec, recState, err, pa, pr, wc, fault>>

\* The whole boundary.
Next ==
    \/ Create
    \/ Process
    \/ Destroy
    \/ FreeString
    \/ GetWordCount
    \/ GetWord

Spec == Init /\ [][Next]_vars

\* One record through its life: created, populated, destroyed.
NextRecord ==
    \/ Create
    \/ Process
    \/ Destroy
    \/ FreeString

SpecRecord == Init /\ [][NextRecord]_vars

\* The accessors alone, on the held internal sentence.
NextAccess ==
    \/ GetWordCount
    \/ GetWord

SpecAccess == Init /\ [][NextAccess]_vars

\* A record populated from the sentence the accessors read.
NextRoundTrip ==
    \/ Create
    \/ Process
    \/ GetWord

SpecRoundTrip == Init /\ [][NextRoundTrip]_vars

\* ================================================================== claims
\* The record the caller holds, and views of it.
Hdr == heap[rec].hdr

\* The text behind a char* member: absent (NULL) reads as the empty text.
FieldText(p) == IF p = NULL THEN <<>> ELSE TextAt(heap, p)

\* The number of elements of the array a words pointer addresses.
WordsLen(p) == IF p = NULL THEN 0 ELSE heap[p].size

\* A UDPipeWord holds exactly the values of the internal word w.
HoldsWord(cw, w) ==
    /\ cw.id = w.id
    /\ cw.head = w.head
    /\ \A k \in 1..Len(TextFields) : FieldText(cw[TextFields[k]]) = w[TextFields[k]]

\* Two UDPipeWords are equal field for field.
SameWord(x, y) ==
    /\ x.id = y.id
    /\ x.head = y.head
    /\ \A k \in 1..Len(TextFields) :
         FieldText(x[TextFields[k]]) = FieldText(y[TextFields[k]])

Rejected == pa.model_ptr = NULL \/ pa.text.isnull \/ pa.result = NULL

StageOrder == <<"tokenizer", "segment", "tag", "parse", "convert">>

\* C1: every udpipe_process_text call that was given an error slot ends
\* either with 1, a written record and no error message, or with 0, a
\* non-null error message and an untouched record.
C1_OneOutcome ==
    (pr.called /\ pa.error_msg # NULL) =>
        \/ pr.ret = 1 /\ pr.recWritten /\ ~pr.errWritten
        \/ pr.ret = 0 /\ pr.err # NULL /\ ~pr.recWritten

\* C2: a call with a null model, or a null or empty text, fails at once:
\* no pipeline stage runs, nothing is allocated for the record, and the
\* error message, when there is one, is "Invalid parameters".
C2_RejectsNullOrEmpty ==
    (pr.called /\ (pa.model_ptr = NULL \/ pa.text.isnull \/ Len(pa.text.s) = 0)) =>
        /\ pr.ret = 0
        /\ pr.stages = <<>>
        /\ pr.recBlocks = {}
        /\ pr.err # NULL => FieldText(pr.err) = InvalidParameters

\* C3: after a successful call on a non-empty text the record has one word
\* per token, words[i] holds the id, head and the eight texts of token i, and
\* text is non-null and reads as the text the caller passed.
C3_RecordHoldsSentence ==
    (recState = "processed" /\ pr.ret = 1 /\ Len(pa.text.s) > 0) =>
        /\ Hdr.word_count = Len(parsed)
        /\ WordsLen(Hdr.words) = Len(parsed)
        /\ \A i \in 1..Len(parsed) :
             HoldsWord(heap[Hdr.words].elems[i], parsed[i])
        /\ Hdr.text # NULL
        /\ FieldText(Hdr.text) = pa.text.s

\* C4: no call returns success with a half-populated record (a non-empty
\* member of a token, or the non-empty input text, missing from it), and a
\* failed call leaves nothing it allocated for the record behind.
C4_NoHalfPopulatedSuccess ==
    (recState = "processed" /\ ~Rejected) =>
        /\ pr.ret = 1 =>
             /\ \A i \in 1..Len(parsed) : \A k \in 1..Len(TextFields) :
                  Len(parsed[i][TextFields[k]]) > 0
                      => heap[Hdr.words].elems[i][TextFields[k]] # NULL
             /\ Len(pa.text.s) > 0 => Hdr.text # NULL
        /\ pr.ret = 0 => \A b \in pr.recBlocks : ~heap[b].live

\* C5: in every state of a record the caller can observe, word_count is the
\* length of the allocated words array, and is 0 only when words is absent.
C5_WordCountMatchesWords ==
    (recState \in {"held", "processed"} /\ rec # NULL) =>
        /\ Hdr.word_count = WordsLen(Hdr.words)
        /\ Hdr.word_count = 0 => Hdr.words = NULL

\* C6: one udpipe_sentence_destroy of a created record, fresh or after one
\* udpipe_process_text, ends without a fault and leaves neither the record
\* nor any block allocated for it live.
C6_DestroySafe ==
    recState = "destroyed" =>
        /\ fault = "none"
        /\ \A b \in (pr.recBlocks \cup {rec}) \ {NULL} : ~heap[b].live

\* C7: udpipe_sentence_get_word returns 0 and leaves the caller's word as it
\* was for a null sentence, a null word or an index >= the word count, and
\* returns 1 for every smaller index; udpipe_sentence_get_word_count returns
\* 0 for a null sentence and the number of words otherwise.
C7_AccessorsBoundsChecked ==
    /\ gets > 0 =>
         LET bad == \/ ga.sentence_ptr = NULL
                    \/ ga.word = NULL
                    \/ ga.index >= Len(parsed)
         IN /\ bad => gr.ret = 0 /\ outWord = gr.before
            /\ ~bad => gr.ret = 1
    /\ wc.called => wc.ret = IF wc.arg = NULL THEN 0 ELSE Len(parsed)

\* A call with valid pointers and index = word count of a non-empty
\* sentence was refused, and the count was asked for.
C7_Witness ==
    /\ gets > 0
    /\ ga.sentence_ptr # NULL
    /\ ga.word # NULL
    /\ Len(parsed) > 0
    /\ ga.index = Len(parsed)
    /\ gr.ret = 0
    /\ wc.called
    /\ wc.arg # NULL

\* C8: the word udpipe_sentence_get_word copies out of the internal sentence
\* at index i equals, field for field, words[i] of the record
\* udpipe_process_text made of that sentence.
C8_RoundTrip ==
    (recState = "processed" /\ pr.ret = 1 /\ gets > 0 /\ gr.ret = 1) =>
        SameWord(outWord, heap[Hdr.words].elems[ga.index + 1])

\* C9: the stages of a call run in the order tokenizer, segment, tag, parse,
\* convert, each at most once and only after every earlier one succeeded;
\* a stage that fails is the last one run and the call returns 0; a call
\* that returns 1 ran all five.
C9_StagesInOrder ==
    pr.called =>
        /\ Len(pr.stages) <= Len(StageOrder)
        /\ \A k \in 1..Len(pr.stages) : pr.stages[k].stage = StageOrder[k]
        /\ \A k \in 1..(Len(pr.stages) - 1) : pr.stages[k].outcome = "ok"
        /\ (\E k \in 1..Len(pr.stages) : pr.stages[k].outcome # "ok") => pr.ret = 0
        /\ pr.ret = 1 => Len(pr.stages) = Len(StageOrder)

\* Tagging returned false: tokenizer and segmentation had run, parsing and
\* conversion did not.
C9_Witness ==
    /\ pr.called
    /\ Len(pr.stages) = 3
    /\ pr.stages[3].stage = "tag"
    /\ pr.stages[3].outcome = "fail"
    /\ pr.ret = 0

\* C10: every failed call that was given an error slot leaves exactly one
\* error message in it, and the message is not empty.
C10_FailureHasDescription ==
    (pr.called /\ pr.ret = 0 /\ pa.error_msg # NULL) =>
        /\ pr.errWritten
        /\ pr.err # NULL
        /\ Len(FieldText(pr.err)) > 0

====
